---- MODULE Spec2Model ----
(***************************************************************************)
(* Model of the Move module escrow::marketplace (the escrow ledger): the   *)
(* Marketplace resource stored under an address, the AptosCoin balances of *)
(* the accounts, the on-chain clock, and the four entry functions          *)
(* initialize, create_order, confirm_product_received and process_refund.  *)
(* An entry function is one transaction: when it aborts, the Move VM       *)
(* discards every change it made, so an aborting call changes nothing but  *)
(* the record of the call (last).                                          *)
(***************************************************************************)
EXTENDS Integers, Sequences, FiniteSets, TLC

(* ------------------------------ bounds --------------------------------- *)

\* Largest value of the model's unsigned integers (stands for 2^64 - 1).
MAX_U64 == 65535

\* Orders one Marketplace can hold in the model.
MaxOrders == 2

\* Largest amount a create_order call asks for.
MaxAmount == 2

\* Calls of the handlers of EscrowDApp, and calls of fetchEscrows on its
\* own, that can be in flight together.
MaxHandlers == 2
MaxFetches == 2

\* Instants of the browser's clock, and the delay of the session timer
\* counted in them (stands for 30 * 60 * 1000 ms).
MaxClock == 5
SessionTimeout == 2

(* ------------------------- program constants --------------------------- *)

E_NOT_INITIALIZED == 1
E_ORDER_NOT_FOUND == 2
E_NOT_BUYER == 3
E_NOT_SELLER == 4
E_INVALID_STATUS == 5
E_TIMELINE_NOT_EXPIRED == 6
E_INSUFFICIENT_BALANCE == 7

STATUS_PENDING == 1
STATUS_DELIVERED == 2
STATUS_REFUNDED == 3

\* Seconds in one hour of timeline_hours (the literal 3600 of process_refund).
SecondsPerHour == 3600

(* ------------------------------ inputs --------------------------------- *)

\* Account addresses: callers of confirm_product_received and process_refund.
\* "C" holds no coins and is party to no order: the unrelated third party.
Addr == {"A", "B", "C"}

\* Signers that call initialize, and the marketplace_addr arguments.
Admins == {"A"}
MarketAddrs == {"A"}

\* Signers that call create_order, and the seller_addr arguments: orders go
\* from A to B (two accounts) and from B to B (buyer and seller the same).
Buyers == {"A", "B"}
Sellers == {"B"}

\* AptosCoin balances at the start.
InitBalance == [a \in Addr |-> IF a = "A" THEN 2 ELSE IF a = "B" THEN 1 ELSE 0]

Amounts == 0..MaxAmount

\* timeline_hours arguments: immediate, one hour, and the smallest value
\* whose product with 3600 no longer fits the unsigned integer.
TimelineHours == {0, 1, (MAX_U64 \div SecondsPerHour) + 1}

\* product_name arguments as byte vectors: "w" and the lone byte 0xFF.
ProductNames == {<<119>>, <<255>>}

\* Instants timestamp::now_seconds() takes in the model.
TimePoints == {0, SecondsPerHour}

\* order_id arguments of confirm_product_received and process_refund.
OrderIds == 0..MaxOrders

(* ------------------------------- state --------------------------------- *)

VARIABLES
    market,     \* address -> the Marketplace resource published there
    balance,    \* address -> coin::balance<AptosCoin>
    now,        \* timestamp::now_seconds()
    credited,   \* address -> order_id -> coins deposited out of the pool
    last,       \* the last entry-function call and how it ended
    events,     \* address -> order_id -> the events emitted about the order
    ui,         \* EscrowDApp: wallet state, loading flag, calls in flight
    session     \* WalletTimeoutController: wallet, effect and timers

\* The state of the chain.
ledger == <<market, balance, now, credited, last, events>>

\* The state of the browser.
frontend == <<ui, session>>

vars == <<market, balance, now, credited, last, events, ui, session>>

\* No Marketplace resource under the address.
NoMarketplace ==
    [exists |-> FALSE, orders |-> <<>>, next_order_id |-> 0, escrow_pool |-> 0]

(* --------------------------- transaction end --------------------------- *)

Success == [loc |-> "none", code |-> 0]

\* assert!(cond, code) / abort code of escrow::marketplace
Abort(code) == [loc |-> "marketplace", code |-> code]

\* borrow_global / borrow_global_mut of a resource that is not published
MissingData == [loc |-> "vm", code |-> 4008]

\* u64 arithmetic whose result does not fit
ArithmeticError == [loc |-> "vm", code |-> 4017]

\* string::utf8 on bytes that are not UTF-8 (std::string EINVALID_UTF8)
InvalidUtf8 == [loc |-> "string", code |-> 1]

\* coin::extract of more than the coin holds (coin EINSUFFICIENT_BALANCE)
CoinInsufficient == [loc |-> "coin", code |-> 6]

(* ------------------------------ helpers -------------------------------- *)

\* string::utf8 accepts the vector: for the vectors of ProductNames, every
\* byte is a one-byte (ASCII) code point.
ValidUtf8(bytes) == \A i \in 1..Len(bytes) : bytes[i] < 128

RECURSIVE ScanFrom(_, _, _)
\* The while loop of get_order_mut / get_order_ref from index i on: the
\* position of the first order carrying order_id, 0 when the loop runs out.
ScanFrom(orders, order_id, i) ==
    IF i > Len(orders) THEN 0
    ELSE IF orders[i].order_id = order_id THEN i
    ELSE ScanFrom(orders, order_id, i + 1)

get_order_mut_by_index(orders, order_id) ==
    IF order_id < Len(orders) THEN order_id + 1 ELSE 0

get_order_mut(orders, order_id) == ScanFrom(orders, order_id, 1)

\* expiry_time of process_refund, in unbounded integers.
ExpiryTime(order) == order.created_at + (order.timeline_hours * SecondsPerHour)

\* The u64 computation of expiry_time aborts.
ExpiryOverflows(order) ==
    \/ order.timeline_hours * SecondsPerHour > MAX_U64
    \/ ExpiryTime(order) > MAX_U64

Expired_strict(current_time, expiry_time) == current_time > expiry_time

\* current_time >= expiry_time
Expired(current_time, expiry_time) == current_time >= expiry_time

new_order_released(next_order_id, buyer_addr, seller_addr, product_name, amount, created_at, timeline_hours) ==
    [order_id |-> next_order_id, buyer |-> buyer_addr, seller |-> seller_addr,
     product_name |-> product_name, amount |-> amount,
     status |-> STATUS_PENDING, created_at |-> created_at,
     timeline_hours |-> timeline_hours, escrow_released |-> TRUE]

\* The Order value create_order builds.
new_order(next_order_id, buyer_addr, seller_addr, product_name, amount, created_at, timeline_hours) ==
    [order_id |-> next_order_id,
     buyer |-> buyer_addr,
     seller |-> seller_addr,
     product_name |-> product_name,
     amount |-> amount,
     status |-> STATUS_PENDING,
     created_at |-> created_at,
     timeline_hours |-> timeline_hours,
     escrow_released |-> FALSE]

bump_order_id_twice(next_order_id) == next_order_id + 2

\* marketplace.next_order_id = marketplace.next_order_id + 1
bump_order_id(next_order_id) == next_order_id + 1

mark_delivered_only(order) == [order EXCEPT !.escrow_released = TRUE]

\* order_ref.status = STATUS_DELIVERED; order_ref.escrow_released = true
mark_delivered(order) ==
    [order EXCEPT !.status = STATUS_DELIVERED, !.escrow_released = TRUE]

mark_refunded_zeroed(order) ==
    [order EXCEPT !.status = STATUS_REFUNDED, !.escrow_released = TRUE,
                  !.amount = 0]

\* order_ref.status = STATUS_REFUNDED; order_ref.escrow_released = true
mark_refunded(order) ==
    [order EXCEPT !.status = STATUS_REFUNDED, !.escrow_released = TRUE]

confirm_payee_buyer(order) == order.buyer

\* The account confirm_product_received deposits the payment to.
confirm_payee(order) == order.seller

refund_payee_seller(order) == order.seller

\* The account process_refund deposits the refund to.
refund_payee(order) == order.buyer

\* coin::value(&marketplace.escrow_pool)
get_escrow_balance(marketplace_addr) == market[marketplace_addr].escrow_pool

\* fun get_order_ref(orders, order_id): the index of the order, 0 where
\* the function aborts with E_ORDER_NOT_FOUND.
get_order_ref(orders, order_id) == ScanFrom(orders, order_id, 1)

\* #[view] get_order(marketplace_addr, order_id): how the call ends.
get_order_result(marketplace_addr, order_id) ==
    LET m == market[marketplace_addr]
    IN  IF ~m.exists THEN MissingData
        ELSE IF get_order_ref(m.orders, order_id) = 0
             THEN Abort(E_ORDER_NOT_FOUND)
        ELSE Success

\* #[view] get_all_orders, get_user_orders, get_escrow_balance: how the
\* call ends; each starts with borrow_global<Marketplace>.
view_result(marketplace_addr) ==
    IF ~market[marketplace_addr].exists THEN MissingData ELSE Success

\* #[view] get_all_orders(marketplace_addr): the value returned.
get_all_orders(marketplace_addr) == market[marketplace_addr].orders

RECURSIVE user_orders_twice(_, _, _, _)
user_orders_twice(orders, user_addr, i, user_orders) ==
    IF ~(i < Len(orders)) THEN user_orders
    ELSE LET order == orders[i + 1]
             as_buyer == IF order.buyer = user_addr
                         THEN Append(user_orders, order) ELSE user_orders
             as_seller == IF order.seller = user_addr
                          THEN Append(as_buyer, order) ELSE as_buyer
         IN  user_orders_twice(orders, user_addr, i + 1, as_seller)

get_user_orders_twice(marketplace_addr, user_addr) ==
    user_orders_twice(market[marketplace_addr].orders, user_addr, 0, <<>>)

RECURSIVE user_orders_loop(_, _, _, _)
\* The while loop of get_user_orders, from index i (counted from 0 as in
\* the source) with user_orders collected so far.
user_orders_loop(orders, user_addr, i, user_orders) ==
    IF ~(i < Len(orders)) THEN user_orders
    ELSE LET order == orders[i + 1]
         IN  user_orders_loop(orders, user_addr, i + 1,
                 IF order.buyer = user_addr \/ order.seller = user_addr
                 THEN Append(user_orders, order)
                 ELSE user_orders)

\* #[view] get_user_orders(marketplace_addr, user_addr): the value returned.
get_user_orders(marketplace_addr, user_addr) ==
    user_orders_loop(market[marketplace_addr].orders, user_addr, 0, <<>>)

NoCredit == [seller |-> 0, buyer |-> 0]

\* The events of the module, without their timestamp field.
\* event::emit(OrderCreated { order_id, buyer, seller, amount, .. })
OrderCreated(order) ==
    [type |-> "OrderCreated", order_id |-> order.order_id,
     buyer |-> order.buyer, seller |-> order.seller, amount |-> order.amount]

\* event::emit(ProductDelivered { order_id, .. })
ProductDelivered(order_id) ==
    [type |-> "ProductDelivered", order_id |-> order_id]

RefundProcessed_as_delivered(order) ==
    [type |-> "ProductDelivered", order_id |-> order.order_id]

\* event::emit(RefundProcessed { order_id, buyer, amount, .. })
RefundProcessed(order) ==
    [type |-> "RefundProcessed", order_id |-> order.order_id,
     buyer |-> order.buyer, amount |-> order.amount]

committed_always(res) == TRUE

\* The writes of an entry function are kept when it returns; when it
\* aborts the transaction is discarded as a whole.
committed(res) == res = Success

\* The record of one entry-function call: its signer, the marketplace_addr
\* and order_id it names (for create_order the id given to the new order,
\* 0 when it aborts), the amount of a create_order, and how it ended.
Call(op, caller, mkt, id, amount, res) ==
    [op |-> op, caller |-> caller, mkt |-> mkt, order_id |-> id,
     amount |-> amount, res |-> res]

(* ------------------------------- Init ---------------------------------- *)

\* The effect holds no timer.
NoTimer == 0 - 1

\* EscrowDApp before a wallet is connected: useState(false) for loading,
\* no call in flight.
UiInit ==
    [connected |-> FALSE, account |-> "none", loading |-> FALSE,
     handlers |-> <<>>, fetches |-> 0]

\* WalletTimeoutController when mounted with no wallet connected: the
\* effect of the first render has run and started no timer.
SessionInit ==
    [mounted |-> TRUE, connected |-> FALSE, effect_due |-> FALSE,
     effect_timer |-> NoTimer, timers |-> {}, clock |-> 0,
     fired_disconnected |-> FALSE]

Init ==
    /\ market = [a \in Addr |-> NoMarketplace]
    /\ balance = InitBalance
    /\ now = 0
    /\ credited = [a \in Addr |-> [i \in 1..MaxOrders |-> NoCredit]]
    /\ last = Call("none", "A", "A", 0, 0, Success)
    /\ events = [a \in Addr |-> [i \in 1..MaxOrders |-> <<>>]]
    /\ ui = UiInit
    /\ session = SessionInit

(* ------------------------------ actions -------------------------------- *)

initialize_at_first(admin) ==
    LET at == CHOOSE a \in Admins : TRUE
    IN  /\ market' = IF ~market[at].exists
                     THEN [market EXCEPT ![at] =
                              [exists |-> TRUE, orders |-> <<>>,
                               next_order_id |-> 1, escrow_pool |-> 0]]
                     ELSE market
        /\ last' = Call("initialize", admin, admin, 0, 0, Success)
        /\ UNCHANGED <<balance, now, credited, events, ui, session>>

initialize_reset(admin) ==
    /\ market' = [market EXCEPT ![admin] =
                     [exists |-> TRUE, orders |-> <<>>,
                      next_order_id |-> 1, escrow_pool |-> 0]]
    /\ last' = Call("initialize", admin, admin, 0, 0, Success)
    /\ UNCHANGED <<balance, now, credited, events, ui, session>>

\* public entry fun initialize(admin)
initialize(admin) ==
    /\ market' = IF ~market[admin].exists
                 THEN [market EXCEPT ![admin] =
                          [exists |-> TRUE, orders |-> <<>>,
                           next_order_id |-> 1, escrow_pool |-> 0]]
                 ELSE market
    /\ last' = Call("initialize", admin, admin, 0, 0, Success)
    /\ UNCHANGED <<balance, now, credited, events, ui, session>>

create_order_result_strict(buyer_addr, product_name, amount, marketplace_addr) ==
    IF ~(balance[buyer_addr] > amount) THEN Abort(E_INSUFFICIENT_BALANCE)
    ELSE IF ~market[marketplace_addr].exists THEN MissingData
    ELSE IF ~ValidUtf8(product_name) THEN InvalidUtf8
    ELSE IF market[marketplace_addr].escrow_pool + amount > MAX_U64
         THEN ArithmeticError
    ELSE IF bump_order_id(market[marketplace_addr].next_order_id) > MAX_U64
         THEN ArithmeticError
    ELSE Success

\* How create_order ends, from its checks in program order.
create_order_result(buyer_addr, product_name, amount, marketplace_addr) ==
    IF ~(balance[buyer_addr] >= amount) THEN Abort(E_INSUFFICIENT_BALANCE)
    ELSE IF ~market[marketplace_addr].exists THEN MissingData
    ELSE IF ~ValidUtf8(product_name) THEN InvalidUtf8
    ELSE IF market[marketplace_addr].escrow_pool + amount > MAX_U64
         THEN ArithmeticError
    ELSE IF bump_order_id(market[marketplace_addr].next_order_id) > MAX_U64
         THEN ArithmeticError
    ELSE Success

\* public entry fun create_order(buyer, seller_addr, product_name, amount,
\*                               timeline_hours, marketplace_addr)
\* The model stores at most MaxOrders orders: a call that would add one
\* more is not taken.
create_order(buyer_addr, seller_addr, product_name, amount, timeline_hours, marketplace_addr) ==
    LET res == create_order_result(buyer_addr, product_name, amount,
                                   marketplace_addr)
        m == market[marketplace_addr]
        order == new_order(m.next_order_id, buyer_addr, seller_addr,
                           product_name, amount, now, timeline_hours)
    IN  /\ IF committed(res)
           THEN /\ Len(m.orders) < MaxOrders
                /\ balance' = [balance EXCEPT ![buyer_addr] = @ - amount]
                /\ market' = [market EXCEPT ![marketplace_addr] =
                                 [exists |-> TRUE,
                                  orders |-> Append(m.orders, order),
                                  next_order_id |->
                                      bump_order_id(m.next_order_id),
                                  escrow_pool |-> m.escrow_pool + amount]]
                /\ last' = Call("create_order", buyer_addr, marketplace_addr,
                                order.order_id, amount, res)
                /\ events' = [events EXCEPT
                                 ![marketplace_addr][order.order_id] =
                                     Append(@, OrderCreated(order))]
           ELSE /\ UNCHANGED <<balance, market, events>>
                /\ last' = Call("create_order", buyer_addr, marketplace_addr,
                                0, amount, res)
        /\ UNCHANGED <<now, credited, ui, session>>

confirm_product_received_result_no_status(buyer_addr, order_id, marketplace_addr) ==
    LET m == market[marketplace_addr]
        i == get_order_mut(m.orders, order_id)
    IN  IF ~m.exists THEN MissingData
        ELSE IF i = 0 THEN Abort(E_ORDER_NOT_FOUND)
        ELSE IF ~(m.orders[i].buyer = buyer_addr) THEN Abort(E_NOT_BUYER)
        ELSE IF m.escrow_pool < m.orders[i].amount THEN CoinInsufficient
        ELSE Success

confirm_product_received_result_no_buyer(buyer_addr, order_id, marketplace_addr) ==
    LET m == market[marketplace_addr]
        i == get_order_mut(m.orders, order_id)
    IN  IF ~m.exists THEN MissingData
        ELSE IF i = 0 THEN Abort(E_ORDER_NOT_FOUND)
        ELSE IF ~(m.orders[i].status = STATUS_PENDING)
             THEN Abort(E_INVALID_STATUS)
        ELSE IF m.escrow_pool < m.orders[i].amount THEN CoinInsufficient
        ELSE Success

confirm_product_received_result_status_first(buyer_addr, order_id, marketplace_addr) ==
    LET m == market[marketplace_addr]
        i == get_order_mut(m.orders, order_id)
    IN  IF ~m.exists THEN MissingData
        ELSE IF i = 0 THEN Abort(E_ORDER_NOT_FOUND)
        ELSE IF ~(m.orders[i].status = STATUS_PENDING)
             THEN Abort(E_INVALID_STATUS)
        ELSE IF ~(m.orders[i].buyer = buyer_addr) THEN Abort(E_NOT_BUYER)
        ELSE IF m.escrow_pool < m.orders[i].amount THEN CoinInsufficient
        ELSE Success

confirm_product_received_result_before_deadline(buyer_addr, order_id, marketplace_addr) ==
    LET m == market[marketplace_addr]
        i == get_order_mut(m.orders, order_id)
    IN  IF ~m.exists THEN MissingData
        ELSE IF i = 0 THEN Abort(E_ORDER_NOT_FOUND)
        ELSE IF ~(m.orders[i].buyer = buyer_addr) THEN Abort(E_NOT_BUYER)
        ELSE IF ~(m.orders[i].status = STATUS_PENDING)
             THEN Abort(E_INVALID_STATUS)
        ELSE IF ~ExpiryOverflows(m.orders[i])
                /\ now > ExpiryTime(m.orders[i])
             THEN Abort(E_INVALID_STATUS)
        ELSE IF m.escrow_pool < m.orders[i].amount THEN CoinInsufficient
        ELSE Success

\* How confirm_product_received ends, from its checks in program order.
confirm_product_received_result(buyer_addr, order_id, marketplace_addr) ==
    LET m == market[marketplace_addr]
        i == get_order_mut(m.orders, order_id)
    IN  IF ~m.exists THEN MissingData
        ELSE IF i = 0 THEN Abort(E_ORDER_NOT_FOUND)
        ELSE IF ~(m.orders[i].buyer = buyer_addr) THEN Abort(E_NOT_BUYER)
        ELSE IF ~(m.orders[i].status = STATUS_PENDING)
             THEN Abort(E_INVALID_STATUS)
        ELSE IF m.escrow_pool < m.orders[i].amount THEN CoinInsufficient
        ELSE IF balance[confirm_payee(m.orders[i])] + m.orders[i].amount
                    > MAX_U64
             THEN ArithmeticError
        ELSE Success

\* public entry fun confirm_product_received(buyer, order_id, marketplace_addr)
confirm_product_received(buyer_addr, order_id, marketplace_addr) ==
    LET res == confirm_product_received_result(buyer_addr, order_id,
                                               marketplace_addr)
        m == market[marketplace_addr]
        i == get_order_mut(m.orders, order_id)
    IN  /\ last' = Call("confirm_product_received", buyer_addr,
                        marketplace_addr, order_id, 0, res)
        /\ IF committed(res)
           THEN /\ market' = [market EXCEPT ![marketplace_addr] =
                     [m EXCEPT !.orders[i] = mark_delivered(m.orders[i]),
                               !.escrow_pool = @ - m.orders[i].amount]]
                /\ balance' = [balance EXCEPT ![confirm_payee(m.orders[i])] =
                                  @ + m.orders[i].amount]
                /\ credited' =
                     [credited EXCEPT ![marketplace_addr][order_id] =
                        IF confirm_payee(m.orders[i]) = m.orders[i].seller
                        THEN [@ EXCEPT !.seller = @ + m.orders[i].amount]
                        ELSE [@ EXCEPT !.buyer = @ + m.orders[i].amount]]
                /\ events' = [events EXCEPT ![marketplace_addr][order_id] =
                                 Append(@, ProductDelivered(order_id))]
           ELSE UNCHANGED <<market, balance, credited, events>>
        /\ UNCHANGED <<now, ui, session>>

process_refund_result_no_status(requester, order_id, marketplace_addr) ==
    LET m == market[marketplace_addr]
        i == get_order_mut(m.orders, order_id)
    IN  IF ~m.exists THEN MissingData
        ELSE IF i = 0 THEN Abort(E_ORDER_NOT_FOUND)
        ELSE IF ExpiryOverflows(m.orders[i]) THEN ArithmeticError
        ELSE IF ~Expired(now, ExpiryTime(m.orders[i]))
             THEN Abort(E_TIMELINE_NOT_EXPIRED)
        ELSE IF m.escrow_pool < m.orders[i].amount THEN CoinInsufficient
        ELSE Success

process_refund_result_no_timeline(requester, order_id, marketplace_addr) ==
    LET m == market[marketplace_addr]
        i == get_order_mut(m.orders, order_id)
    IN  IF ~m.exists THEN MissingData
        ELSE IF i = 0 THEN Abort(E_ORDER_NOT_FOUND)
        ELSE IF ~(m.orders[i].status = STATUS_PENDING)
             THEN Abort(E_INVALID_STATUS)
        ELSE IF m.escrow_pool < m.orders[i].amount THEN CoinInsufficient
        ELSE Success

\* How process_refund ends, from its checks in program order.
process_refund_result(requester, order_id, marketplace_addr) ==
    LET m == market[marketplace_addr]
        i == get_order_mut(m.orders, order_id)
    IN  IF ~m.exists THEN MissingData
        ELSE IF i = 0 THEN Abort(E_ORDER_NOT_FOUND)
        ELSE IF ~(m.orders[i].status = STATUS_PENDING)
             THEN Abort(E_INVALID_STATUS)
        ELSE IF ExpiryOverflows(m.orders[i]) THEN ArithmeticError
        ELSE IF ~Expired(now, ExpiryTime(m.orders[i]))
             THEN Abort(E_TIMELINE_NOT_EXPIRED)
        ELSE IF m.escrow_pool < m.orders[i].amount THEN CoinInsufficient
        ELSE IF balance[refund_payee(m.orders[i])] + m.orders[i].amount
                    > MAX_U64
             THEN ArithmeticError
        ELSE Success

\* public entry fun process_refund(requester, order_id, marketplace_addr)
process_refund(requester, order_id, marketplace_addr) ==
    LET res == process_refund_result(requester, order_id, marketplace_addr)
        m == market[marketplace_addr]
        i == get_order_mut(m.orders, order_id)
    IN  /\ last' = Call("process_refund", requester, marketplace_addr,
                        order_id, 0, res)
        /\ IF committed(res)
           THEN /\ market' = [market EXCEPT ![marketplace_addr] =
                     [m EXCEPT !.orders[i] = mark_refunded(m.orders[i]),
                               !.escrow_pool = @ - m.orders[i].amount]]
                /\ balance' = [balance EXCEPT ![refund_payee(m.orders[i])] =
                                  @ + m.orders[i].amount]
                /\ credited' =
                     [credited EXCEPT ![marketplace_addr][order_id] =
                        IF refund_payee(m.orders[i]) = m.orders[i].buyer
                        THEN [@ EXCEPT !.buyer = @ + m.orders[i].amount]
                        ELSE [@ EXCEPT !.seller = @ + m.orders[i].amount]]
                /\ events' = [events EXCEPT ![marketplace_addr][order_id] =
                                 Append(@, RefundProcessed(m.orders[i]))]
           ELSE UNCHANGED <<market, balance, credited, events>>
        /\ UNCHANGED <<now, ui, session>>

\* The chain's clock moves on to a later instant.
Tick(t) ==
    /\ t > now
    /\ now' = t
    /\ UNCHANGED <<market, balance, credited, last, events, ui, session>>

Next ==
    \/ \E admin \in Admins : initialize(admin)
    \/ \E b \in Buyers, s \in Sellers, p \in ProductNames, amt \in Amounts,
          h \in TimelineHours, m \in MarketAddrs :
          create_order(b, s, p, amt, h, m)
    \/ \E b \in Addr, id \in OrderIds, m \in MarketAddrs :
          confirm_product_received(b, id, m)
    \/ \E r \in Addr, id \in OrderIds, m \in MarketAddrs :
          process_refund(r, id, m)
    \/ \E t \in TimePoints : Tick(t)

Spec == Init /\ [][Next]_vars

(* ------------------------- reading the state --------------------------- *)

\* A Marketplace is published at m and holds an order carrying order_id.
HasOrder(m, id) ==
    market[m].exists /\ get_order_mut(market[m].orders, id) # 0

\* That order, as the entry functions find it.
OrderAt(m, id) == market[m].orders[get_order_mut(market[m].orders, id)]

\* The order at the same position after the step.
OrderAfter(m, id) == market'[m].orders[get_order_mut(market[m].orders, id)]

RECURSIVE PendingSum(_)
\* Sum of amount over the orders whose status is Pending.
PendingSum(orders) ==
    IF orders = <<>> THEN 0
    ELSE (IF Head(orders).status = STATUS_PENDING THEN Head(orders).amount
          ELSE 0) + PendingSum(Tail(orders))

RECURSIVE SumOver(_, _)
SumOver(f, S) ==
    IF S = {} THEN 0
    ELSE LET a == CHOOSE x \in S : TRUE IN f[a] + SumOver(f, S \ {a})

\* All coins: the accounts' balances and the pools of the marketplaces.
TotalFunds(bal, mk) ==
    SumOver(bal, Addr) + SumOver([a \in Addr |-> mk[a].escrow_pool], Addr)

InitialFunds == SumOver(InitBalance, Addr)

\* The step is the call that last' records.
CreateStep ==
    /\ last'.op = "create_order"
    /\ \E s \in Sellers, p \in ProductNames, h \in TimelineHours :
          create_order(last'.caller, s, p, last'.amount, h, last'.mkt)

ConfirmStep ==
    /\ last'.op = "confirm_product_received"
    /\ confirm_product_received(last'.caller, last'.order_id, last'.mkt)

RefundStep ==
    /\ last'.op = "process_refund"
    /\ process_refund(last'.caller, last'.order_id, last'.mkt)

(* -------------------------------- C1 ----------------------------------- *)

\* C1: at every point between operations, whether they succeeded or
\* failed, the escrow pool of a marketplace (the value get_escrow_balance
\* returns) equals the sum of amount over its orders that are Pending.
C1_PoolIsPendingSum ==
    \A m \in Addr :
        market[m].exists =>
            get_escrow_balance(m) = PendingSum(market[m].orders)

\* Two orders with coins at stake, one still Pending and one settled, seen
\* after a call that failed.
C1_Witness ==
    \E m \in Addr :
        /\ Len(market[m].orders) = 2
        /\ \E i, j \in 1..2 :
              /\ market[m].orders[i].status = STATUS_PENDING
              /\ market[m].orders[i].amount > 0
              /\ market[m].orders[j].status # STATUS_PENDING
              /\ market[m].orders[j].amount > 0
        /\ last.res # Success

(* -------------------------------- C2 ----------------------------------- *)

C2_Moves ==
    /\ (CreateStep /\ last'.res = Success) =>
          /\ balance' = [balance EXCEPT ![last'.caller] = @ - last'.amount]
          /\ market'[last'.mkt].escrow_pool =
                 market[last'.mkt].escrow_pool + last'.amount
    /\ (ConfirmStep /\ last'.res = Success) =>
          LET o == OrderAt(last'.mkt, last'.order_id)
          IN  /\ balance' = [balance EXCEPT ![o.seller] = @ + o.amount]
              /\ market'[last'.mkt].escrow_pool =
                     market[last'.mkt].escrow_pool - o.amount
    /\ (RefundStep /\ last'.res = Success) =>
          LET o == OrderAt(last'.mkt, last'.order_id)
          IN  /\ balance' = [balance EXCEPT ![o.buyer] = @ + o.amount]
              /\ market'[last'.mkt].escrow_pool =
                     market[last'.mkt].escrow_pool - o.amount

\* C2: the balances of all accounts plus the escrow pool always add up to
\* what they were at the start; a successful create_order moves exactly
\* amount from the buyer to the pool, a successful confirm_product_received
\* exactly order.amount from the pool to the seller, a successful
\* process_refund exactly order.amount from the pool to the buyer.
C2_FundsConserved ==
    /\ [](TotalFunds(balance, market) = InitialFunds)
    /\ [][C2_Moves]_vars

\* Coins have gone all three ways: an order paid to a seller who is not its
\* buyer and another refunded, both for a positive amount.
C2_Witness ==
    \E m \in Addr :
        /\ Len(market[m].orders) = 2
        /\ \E i, j \in 1..2 :
              /\ market[m].orders[i].status = STATUS_DELIVERED
              /\ market[m].orders[i].amount > 0
              /\ market[m].orders[i].buyer # market[m].orders[i].seller
              /\ market[m].orders[j].status = STATUS_REFUNDED
              /\ market[m].orders[j].amount > 0
        /\ balance # InitBalance

(* -------------------------------- C3 ----------------------------------- *)

\* No step changes the status of an order that is not Pending.
C3_Terminal ==
    \A m \in Addr :
        \A i \in 1..Len(market[m].orders) :
            market[m].orders[i].status # STATUS_PENDING =>
                /\ Len(market'[m].orders) >= i
                /\ market'[m].orders[i].status = market[m].orders[i].status

\* The claim as stated: on an order that has left Pending, every confirm and
\* every refund, whoever calls, fails with InvalidStatus.
C3_AllInvalidStatus ==
    (/\ ConfirmStep \/ RefundStep
     /\ HasOrder(last'.mkt, last'.order_id)
     /\ OrderAt(last'.mkt, last'.order_id).status # STATUS_PENDING)
        => last'.res = Abort(E_INVALID_STATUS)

C3_Original == [][C3_Terminal /\ C3_AllInvalidStatus]_vars

\* What the code does there: the refund fails with InvalidStatus, and so
\* does the buyer's confirm; a confirm by anyone else fails with NotBuyer.
C3_FailsByCaller ==
    /\ RefundStep =>
        ((/\ HasOrder(last'.mkt, last'.order_id)
          /\ OrderAt(last'.mkt, last'.order_id).status # STATUS_PENDING)
            => last'.res = Abort(E_INVALID_STATUS))
    /\ ConfirmStep =>
        ((/\ HasOrder(last'.mkt, last'.order_id)
          /\ OrderAt(last'.mkt, last'.order_id).status # STATUS_PENDING)
            => last'.res =
                 IF last'.caller = OrderAt(last'.mkt, last'.order_id).buyer
                 THEN Abort(E_INVALID_STATUS)
                 ELSE Abort(E_NOT_BUYER))

\* C3 (amended): once an order's status has left Pending it never changes
\* again; every later confirm_product_received or process_refund on it
\* fails: the refund and the buyer's confirm with InvalidStatus, a confirm
\* by any other caller with NotBuyer.
C3_TerminalForever == [][C3_Terminal /\ C3_FailsByCaller]_vars

\* The buyer's confirm of an order that was refunded has just failed with
\* InvalidStatus.
C3_Witness ==
    /\ last.op = "confirm_product_received"
    /\ last.res = Abort(E_INVALID_STATUS)
    /\ HasOrder(last.mkt, last.order_id)
    /\ OrderAt(last.mkt, last.order_id).status = STATUS_REFUNDED
    /\ OrderAt(last.mkt, last.order_id).buyer = last.caller

(* -------------------------------- C4 ----------------------------------- *)

\* C4: the coins deposited out of the pool for an order are none while it
\* is Pending, and exactly its amount once it is settled: all to the seller
\* when Delivered, all to the buyer when Refunded.
C4_PaidOnce ==
    \A m \in Addr :
        \A i \in 1..Len(market[m].orders) :
            LET o == market[m].orders[i]
                c == credited[m][o.order_id]
            IN  /\ o.status = STATUS_PENDING => c = NoCredit
                /\ o.status = STATUS_DELIVERED =>
                       c = [seller |-> o.amount, buyer |-> 0]
                /\ o.status = STATUS_REFUNDED =>
                       c = [seller |-> 0, buyer |-> o.amount]

\* One order paid out to its seller, another to its buyer, and a further
\* confirm or refund has then been turned down with InvalidStatus.
C4_Witness ==
    \E m \in Addr :
        /\ Len(market[m].orders) = 2
        /\ \E i, j \in 1..2 :
              /\ credited[m][i].seller > 0
              /\ credited[m][j].buyer > 0
        /\ last.op \in {"confirm_product_received", "process_refund"}
        /\ last.res = Abort(E_INVALID_STATUS)

(* -------------------------------- C5 ----------------------------------- *)

\* A confirm succeeds only for the order's buyer.
C5_BuyerOnly ==
    (ConfirmStep /\ last'.res = Success) =>
        last'.caller = OrderAt(last'.mkt, last'.order_id).buyer

\* The claim as stated: a call on the order by its seller or by a third
\* party, and any process_refund on it, does not raise the balance of the
\* order's seller.
C5_SellerNeverGains ==
    ((\/ ConfirmStep
      \/ RefundStep) /\ HasOrder(last'.mkt, last'.order_id)) =>
        LET o == OrderAt(last'.mkt, last'.order_id)
        IN  (\/ last'.op = "process_refund"
             \/ last'.caller = o.seller
             \/ last'.caller # o.buyer)
                => balance'[o.seller] <= balance[o.seller]

C5_OtherSellerNeverGains ==
    ((\/ ConfirmStep
      \/ RefundStep) /\ HasOrder(last'.mkt, last'.order_id)) =>
        LET o == OrderAt(last'.mkt, last'.order_id)
        IN  (/\ o.buyer # o.seller
             /\ \/ last'.op = "process_refund"
                \/ last'.caller # o.buyer)
                => balance'[o.seller] <= balance[o.seller]

\* Coins are deposited to an order's seller on its behalf only by the
\* successful confirm of its buyer.
C5_SellerPaidByConfirm ==
    \A m \in Addr :
        \A i \in 1..Len(market[m].orders) :
            LET o == market[m].orders[i]
            IN  credited'[m][o.order_id].seller > credited[m][o.order_id].seller
                    => /\ ConfirmStep
                       /\ last' = Call("confirm_product_received", o.buyer, m,
                                       o.order_id, 0, Success)

C6_NotBuyerFirst ==
    [][(ConfirmStep /\ HasOrder(last'.mkt, last'.order_id)) =>
          (last'.caller # OrderAt(last'.mkt, last'.order_id).buyer
              => last'.res = Abort(E_NOT_BUYER))]_vars

\* A caller who is not the buyer has tried to confirm a Delivered order and
\* got NotBuyer.
C6_Witness ==
    /\ last.op = "confirm_product_received"
    /\ last.res = Abort(E_NOT_BUYER)
    /\ HasOrder(last.mkt, last.order_id)
    /\ OrderAt(last.mkt, last.order_id).status = STATUS_DELIVERED
    /\ OrderAt(last.mkt, last.order_id).buyer # last.caller

(* -------------------------------- C7 ----------------------------------- *)

\* The claim as stated: before the deadline, process_refund on a stored
\* order fails with TimelineNotExpired and changes nothing.
C7_Original ==
    [][(/\ RefundStep
        /\ HasOrder(last'.mkt, last'.order_id)
        /\ now < ExpiryTime(OrderAt(last'.mkt, last'.order_id))) =>
          /\ last'.res = Abort(E_TIMELINE_NOT_EXPIRED)
          /\ UNCHANGED <<market, balance, credited>>]_vars

\* C7 (amended): before the deadline created_at + timeline_hours*3600,
\* process_refund on a stored order fails and leaves the order, the pool and
\* all balances unchanged; it fails with TimelineNotExpired when the order
\* is Pending and the deadline fits the unsigned integer, with InvalidStatus
\* when the order is no longer Pending, and with an arithmetic abort when
\* the order is Pending and the deadline does not fit.
C7_FailsBeforeDeadline ==
    [][(/\ RefundStep
        /\ HasOrder(last'.mkt, last'.order_id)
        /\ now < ExpiryTime(OrderAt(last'.mkt, last'.order_id))) =>
          LET o == OrderAt(last'.mkt, last'.order_id)
          IN  /\ last'.res =
                    IF o.status # STATUS_PENDING THEN Abort(E_INVALID_STATUS)
                    ELSE IF ExpiryTime(o) > MAX_U64 THEN ArithmeticError
                    ELSE Abort(E_TIMELINE_NOT_EXPIRED)
              /\ UNCHANGED <<market, balance, credited>>]_vars

\* A refund of a Pending order with coins at stake, which the pool could
\* have paid, has been turned down because its deadline is still ahead.
C7_Witness ==
    /\ last.op = "process_refund"
    /\ last.res = Abort(E_TIMELINE_NOT_EXPIRED)
    /\ HasOrder(last.mkt, last.order_id)
    /\ LET o == OrderAt(last.mkt, last.order_id)
       IN  /\ o.status = STATUS_PENDING
           /\ o.amount > 0
           /\ now < ExpiryTime(o)
           /\ market[last.mkt].escrow_pool >= o.amount

(* -------------------------------- C8 ----------------------------------- *)

\* C8: at or after the deadline, process_refund on a Pending order succeeds
\* for every caller: the order becomes Refunded with escrow_released set and
\* its amount is added to the buyer's balance.
C8_RefundForAnyCaller ==
    [][(/\ RefundStep
        /\ HasOrder(last'.mkt, last'.order_id)
        /\ OrderAt(last'.mkt, last'.order_id).status = STATUS_PENDING
        /\ now >= ExpiryTime(OrderAt(last'.mkt, last'.order_id))) =>
          LET o == OrderAt(last'.mkt, last'.order_id)
          IN  /\ last'.res = Success
              /\ OrderAfter(last'.mkt, last'.order_id).status = STATUS_REFUNDED
              /\ OrderAfter(last'.mkt, last'.order_id).escrow_released = TRUE
              /\ balance'[o.buyer] = balance[o.buyer] + o.amount]_vars

\* An account that is neither buyer nor seller has refunded a one-hour order
\* at the very instant of its deadline.
C8_Witness ==
    /\ last.op = "process_refund"
    /\ last.res = Success
    /\ HasOrder(last.mkt, last.order_id)
    /\ LET o == OrderAt(last.mkt, last.order_id)
       IN  /\ o.status = STATUS_REFUNDED
           /\ last.caller \notin {o.buyer, o.seller}
           /\ o.timeline_hours = 1
           /\ o.amount > 0
           /\ now = ExpiryTime(o)

(* -------------------------------- C9 ----------------------------------- *)

\* C9: the order at position i carries order_id i and next_order_id is the
\* number of stored orders plus 1, so successive successful create_order
\* calls hand out 1, 2, 3, ... whatever failed attempts come in between.
C9_SequentialIds ==
    /\ \A m \in Addr :
          market[m].exists =>
              /\ market[m].next_order_id = Len(market[m].orders) + 1
              /\ \A i \in 1..Len(market[m].orders) :
                    market[m].orders[i].order_id = i
    /\ (last.op = "create_order" /\ last.res = Success) =>
          last.order_id = Len(market[last.mkt].orders)

\* Two orders are stored and a create_order attempt has just failed.
C9_Witness ==
    \E m \in Addr :
        /\ Len(market[m].orders) = 2
        /\ market[m].orders[2].order_id = 2
        /\ last.op = "create_order"
        /\ last.mkt = m
        /\ last.res # Success

(* -------------------------------- C10 ---------------------------------- *)

\* C10: for every order, escrow_released is true exactly when status is
\* not Pending.
C10_ReleasedIffSettled ==
    \A m \in Addr :
        \A i \in 1..Len(market[m].orders) :
            market[m].orders[i].escrow_released
                <=> (market[m].orders[i].status # STATUS_PENDING)

\* A Pending order beside a Refunded one.
C10_Witness ==
    \E m \in Addr :
        \E i, j \in 1..Len(market[m].orders) :
            /\ market[m].orders[i].status = STATUS_PENDING
            /\ ~market[m].orders[i].escrow_released
            /\ market[m].orders[j].status = STATUS_REFUNDED
            /\ market[m].orders[j].escrow_released

(* -------------------------------- C11 ---------------------------------- *)

\* C11: a create_order, confirm_product_received or process_refund call
\* that fails, whatever the error, leaves the orders, next_order_id, the
\* escrow pool and every account balance as they were before the call.
C11_FailureChangesNothing ==
    [][((CreateStep \/ ConfirmStep \/ RefundStep) /\ last'.res # Success)
          => UNCHANGED <<market, balance, credited>>]_vars

\* A create_order for more than the buyer holds has failed on a
\* marketplace that holds an order and coins.
C11_Witness ==
    /\ last.op = "create_order"
    /\ last.res = Abort(E_INSUFFICIENT_BALANCE)
    /\ market[last.mkt].exists
    /\ Len(market[last.mkt].orders) >= 1
    /\ market[last.mkt].escrow_pool > 0
    /\ balance[last.caller] < last.amount

(* -------------------------------- C12 ---------------------------------- *)

\* The order a successful create_order has appended, and the coins it moved.
CreateAdded(buyer_addr, seller_addr, product_name, amount, timeline_hours, marketplace_addr) ==
    LET m == market[marketplace_addr]
        n == market'[marketplace_addr]
    IN  /\ last'.res = Success
        /\ Len(n.orders) = Len(m.orders) + 1
        /\ \A i \in 1..Len(m.orders) : n.orders[i] = m.orders[i]
        /\ n.orders[Len(n.orders)] =
               [order_id |-> m.next_order_id, buyer |-> buyer_addr,
                seller |-> seller_addr, product_name |-> product_name,
                amount |-> amount, status |-> STATUS_PENDING,
                created_at |-> now, timeline_hours |-> timeline_hours,
                escrow_released |-> FALSE]
        /\ n.escrow_pool = m.escrow_pool + amount
        /\ balance' = [balance EXCEPT ![buyer_addr] = @ - amount]

\* The claim as stated: on an initialized ledger create_order fails with
\* E_INSUFFICIENT_BALANCE exactly when the balance is below amount, and
\* succeeds in every other case.
C12_Original ==
    [][(last'.op = "create_order" /\ market[last'.mkt].exists) =>
       LET b == last'.caller
           a == last'.amount
           mk == last'.mkt
       IN  \A s \in Sellers, p \in ProductNames, h \in TimelineHours :
          create_order(b, s, p, a, h, mk)
          => /\ (last'.res = Abort(E_INSUFFICIENT_BALANCE)) <=> (balance[b] < a)
             /\ balance[b] < a => UNCHANGED <<market, balance>>
             /\ balance[b] >= a => CreateAdded(b, s, p, a, h, mk)]_vars

\* C12 (amended): on an initialized ledger create_order fails with
\* E_INSUFFICIENT_BALANCE exactly when the caller's balance is below amount,
\* moving no coins and adding no order; with balance >= amount it succeeds
\* when product_name is valid UTF-8, adding one Pending order with
\* escrow_released = false and created_at = now, and aborts in string::utf8,
\* changing nothing, when product_name is not valid UTF-8.
C12_InsufficientOrUtf8 ==
    [][(last'.op = "create_order" /\ market[last'.mkt].exists) =>
       LET b == last'.caller
           a == last'.amount
           mk == last'.mkt
       IN  \A s \in Sellers, p \in ProductNames, h \in TimelineHours :
          create_order(b, s, p, a, h, mk)
          => /\ (last'.res = Abort(E_INSUFFICIENT_BALANCE)) <=> (balance[b] < a)
             /\ balance[b] < a => UNCHANGED <<market, balance>>
             /\ (balance[b] >= a /\ ValidUtf8(p)) => CreateAdded(b, s, p, a, h, mk)
             /\ (balance[b] >= a /\ ~ValidUtf8(p))
                   => /\ last'.res = InvalidUtf8
                      /\ UNCHANGED <<market, balance>>]_vars

\* A buyer has put exactly their whole balance into a second order, created
\* after the clock moved.
C12_Witness ==
    /\ last.op = "create_order"
    /\ last.res = Success
    /\ last.amount > 0
    /\ balance[last.caller] = 0
    /\ Len(market[last.mkt].orders) = 2
    /\ market[last.mkt].orders[2].created_at = now
    /\ now > 0

(* -------------------------------- C13 ---------------------------------- *)

RECURSIVE NetOf(_, _)
\* What the orders have taken from and given to account a, a Refunded order
\* counting for nothing: a Pending order holds its buyer's payment, a
\* Delivered one has passed it to its seller.
NetOf(orders, a) ==
    IF orders = <<>> THEN 0
    ELSE LET o == Head(orders)
             paid == IF o.status # STATUS_REFUNDED /\ o.buyer = a
                     THEN o.amount ELSE 0
             got == IF o.status = STATUS_DELIVERED /\ o.seller = a
                    THEN o.amount ELSE 0
         IN  got - paid + NetOf(Tail(orders), a)

\* C13: create_order followed, after the deadline, by process_refund is a
\* round trip on funds: an order that went from created to Refunded has
\* left no trace in its buyer's balance nor in the escrow pool, whatever
\* buyer, amount and timeline it has and whatever happened to other orders.
C13_RefundRoundTrip ==
    \A mk \in MarketAddrs :
        LET m == market[mk]
        IN  /\ \A a \in Addr : balance[a] = InitBalance[a] + NetOf(m.orders, a)
            /\ m.escrow_pool = PendingSum(m.orders)
            /\ (m.exists /\ Len(m.orders) >= 1
                /\ \A i \in 1..Len(m.orders) :
                       m.orders[i].status = STATUS_REFUNDED)
               => (balance = InitBalance /\ m.escrow_pool = 0)

\* The only order, of a positive amount and a one-hour timeline, was
\* refunded on a third party's request once the hour had passed: balances
\* and pool are those of before its creation.
C13_Witness ==
    /\ last.op = "process_refund"
    /\ last.res = Success
    /\ last.caller = "C"
    /\ Len(market[last.mkt].orders) = 1
    /\ market[last.mkt].orders[1].status = STATUS_REFUNDED
    /\ market[last.mkt].orders[1].amount > 0
    /\ market[last.mkt].orders[1].timeline_hours = 1
    /\ balance = InitBalance
    /\ market[last.mkt].escrow_pool = 0

(* -------------------------------- C14 ---------------------------------- *)

\* The step is the initialize call that last' records.
InitializeStep ==
    /\ last'.op = "initialize"
    /\ initialize(last'.caller)

\* C14: initialize is idempotent. Where the caller's address holds no
\* marketplace it creates one with no orders, next_order_id = 1 and an
\* empty pool; where one exists, in whatever state, it returns without
\* error and changes nothing. It never touches another address or a
\* balance.
C14_InitializeIdempotent ==
    [][InitializeStep =>
          LET admin == last'.caller
          IN  /\ last'.res = Success
              /\ market'[admin].exists
              /\ ~market[admin].exists =>
                     /\ market'[admin].orders = <<>>
                     /\ market'[admin].next_order_id = 1
                     /\ market'[admin].escrow_pool = 0
              /\ market[admin].exists => market' = market
              /\ \A a \in Addr \ {admin} : market'[a] = market[a]
              /\ UNCHANGED <<balance, credited, now>>]_vars

\* initialize has just been called on a marketplace that holds two orders
\* and coins in its pool.
C14_Witness ==
    /\ last.op = "initialize"
    /\ last.res = Success
    /\ Len(market[last.caller].orders) = 2
    /\ market[last.caller].escrow_pool > 0
    /\ market[last.caller].next_order_id = 3

(* -------------------------------- C15 ---------------------------------- *)

\* C15: every entry function and every view addressed to an address that
\* holds no marketplace fails with E_NOT_INITIALIZED and changes nothing;
\* create_order in particular reports E_NOT_INITIALIZED, not
\* E_INSUFFICIENT_BALANCE nor an error outside the module's list.
C15_NotInitialized ==
    /\ [](\A mk \in MarketAddrs : ~market[mk].exists =>
             /\ view_result(mk) = Abort(E_NOT_INITIALIZED)
             /\ \A id \in OrderIds :
                    get_order_result(mk, id) = Abort(E_NOT_INITIALIZED))
    /\ [][((CreateStep \/ ConfirmStep \/ RefundStep)
           /\ ~market[last'.mkt].exists)
          => /\ last'.res = Abort(E_NOT_INITIALIZED)
             /\ UNCHANGED <<market, balance, credited>>]_vars

(* -------------------------------- C16 ---------------------------------- *)

\* No stored order of marketplace m carries id: id is 0 or at least
\* next_order_id.
Unissued(m, id) == id = 0 \/ id >= market[m].next_order_id

\* C16: on a marketplace, confirm_product_received, process_refund and
\* get_order called with an order_id that is 0 or at least next_order_id
\* fail with E_ORDER_NOT_FOUND, whoever calls and whatever the time, and
\* the two entry functions change nothing.
C16_OrderNotFound ==
    /\ [](\A mk \in MarketAddrs, id \in 0..(MaxOrders + 1) :
             (market[mk].exists /\ Unissued(mk, id))
             => /\ get_order_result(mk, id) = Abort(E_ORDER_NOT_FOUND)
                /\ \A c \in Addr :
                       /\ confirm_product_received_result(c, id, mk)
                              = Abort(E_ORDER_NOT_FOUND)
                       /\ process_refund_result(c, id, mk)
                              = Abort(E_ORDER_NOT_FOUND))
    /\ [][((ConfirmStep \/ RefundStep)
           /\ market[last'.mkt].exists
           /\ Unissued(last'.mkt, last'.order_id))
          => /\ last'.res = Abort(E_ORDER_NOT_FOUND)
             /\ UNCHANGED <<market, balance, credited>>]_vars

\* A third party's confirm_product_received named the next identifier to
\* be issued, on a marketplace that holds a Pending order, and failed with
\* E_ORDER_NOT_FOUND.
C16_Witness ==
    /\ last.op = "confirm_product_received"
    /\ last.res = Abort(E_ORDER_NOT_FOUND)
    /\ last.caller = "C"
    /\ market[last.mkt].exists
    /\ Len(market[last.mkt].orders) = 1
    /\ market[last.mkt].orders[1].status = STATUS_PENDING
    /\ last.order_id = market[last.mkt].next_order_id

(* -------------------------------- C17 ---------------------------------- *)

\* C17: every order stored in a marketplace has amount > 0; create_order
\* never adds an order whose amount is 0.
C17_PositiveAmount ==
    \A mk \in MarketAddrs :
        \A i \in 1..Len(market[mk].orders) : market[mk].orders[i].amount > 0

(* -------------------------------- C19 ---------------------------------- *)

\* C19: the deadline created_at + timeline_hours * 3600 is computable in
\* u64 for every timeline_hours create_order accepts: a process_refund on
\* a Pending order either succeeds or fails with E_TIMELINE_NOT_EXPIRED,
\* and never for another reason such as an overflow of the deadline.
C19_RefundOrNotExpired ==
    [][(/\ RefundStep
        /\ HasOrder(last'.mkt, last'.order_id)
        /\ OrderAt(last'.mkt, last'.order_id).status = STATUS_PENDING)
       => last'.res \in {Success, Abort(E_TIMELINE_NOT_EXPIRED)}]_vars

(* -------------------------------- C18 ---------------------------------- *)

\* The instants of the clock in the specification with fairness: one more
\* hour than TimePoints, so that the deadline of a one-hour order created
\* at any instant of TimePoints is an instant the clock reaches.
LiveTimePoints == {0, SecondsPerHour, 2 * SecondsPerHour}

\* Orders are created while a one-hour deadline still lies within
\* LiveTimePoints; the other calls are those of Next.
NextLive ==
    \/ \E admin \in Admins : initialize(admin)
    \/ \E b \in Buyers, s \in Sellers, p \in ProductNames, amt \in Amounts, h \in TimelineHours, m \in MarketAddrs :
          /\ now + SecondsPerHour \in LiveTimePoints
          /\ create_order(b, s, p, amt, h, m)
    \/ \E b \in Addr, id \in OrderIds, m \in MarketAddrs :
          confirm_product_received(b, id, m)
    \/ \E r \in Addr, id \in OrderIds, m \in MarketAddrs :
          process_refund(r, id, m)
    \/ \E t \in LiveTimePoints : Tick(t)

\* The clock keeps advancing and process_refund keeps being attempted on
\* every order identifier.
Fairness ==
    /\ WF_vars(\E t \in LiveTimePoints : Tick(t))
    /\ \A id \in 1..MaxOrders, m \in MarketAddrs :
           WF_vars(\E r \in Addr : process_refund(r, id, m))

SpecLive == Init /\ [][NextLive]_vars /\ Fairness

\* Order id of marketplace m is stored and Pending.
IsPending(m, id) ==
    HasOrder(m, id) /\ OrderAt(m, id).status = STATUS_PENDING

\* C18: with the clock advancing and process_refund attempted again and
\* again, every order eventually leaves Pending: no order stays Pending
\* forever and no amount stays in the pool forever.
C18_EveryOrderLeavesPending ==
    \A id \in 1..MaxOrders, m \in MarketAddrs :
        IsPending(m, id) ~> (HasOrder(m, id) /\ ~IsPending(m, id))

\* The same for the orders whose deadline is representable in u64.
RepresentableLeavesPending ==
    \A id \in 1..MaxOrders, m \in MarketAddrs :
        (IsPending(m, id) /\ ~ExpiryOverflows(OrderAt(m, id)))
            ~> (HasOrder(m, id) /\ ~IsPending(m, id))

(* -------------------------------- C20 ---------------------------------- *)

\* Order id of marketplace m is Pending and its deadline has come.
PendingPastDeadline(m, id) ==
    /\ IsPending(m, id)
    /\ ~ExpiryOverflows(OrderAt(m, id))
    /\ Expired(now, ExpiryTime(OrderAt(m, id)))

\* C20: entry functions run one after the other. With the buyer's
\* confirm_product_received and another caller's process_refund both
\* issued on a Pending order whose deadline has come, the one that runs
\* first succeeds and leaves a state in which the other fails with
\* E_INVALID_STATUS; the amount has been deposited once, to one party, and
\* the state the first one leaves has the order's new status and a pool
\* that no longer counts its amount.
C20_Serialized ==
    [][\A mk \in MarketAddrs, id \in 1..MaxOrders :
           (/\ ConfirmStep \/ RefundStep
            /\ last'.mkt = mk
            /\ last'.order_id = id
            /\ PendingPastDeadline(mk, id)) =>
           LET o == OrderAt(mk, id)
               i == get_order_mut(market[mk].orders, id)
           IN  /\ (ConfirmStep /\ last'.caller = o.buyer) =>
                      /\ last'.res = Success
                      /\ \A r \in Addr \ {o.buyer} :
                             process_refund_result(r, id, mk)'
                                 = Abort(E_INVALID_STATUS)
                      /\ credited'[mk][i] = [seller |-> o.amount, buyer |-> 0]
                      /\ market'[mk].orders[i].status = STATUS_DELIVERED
                      /\ market'[mk].escrow_pool
                             = PendingSum(market'[mk].orders)
               /\ (RefundStep /\ last'.caller # o.buyer) =>
                      /\ last'.res = Success
                      /\ confirm_product_received_result(o.buyer, id, mk)'
                             = Abort(E_INVALID_STATUS)
                      /\ credited'[mk][i] = [seller |-> 0, buyer |-> o.amount]
                      /\ market'[mk].orders[i].status = STATUS_REFUNDED
                      /\ market'[mk].escrow_pool
                             = PendingSum(market'[mk].orders)]_vars

\* An order of a positive amount whose deadline was its creation time has
\* been confirmed by its buyer, and a third party's process_refund on it
\* then failed with E_INVALID_STATUS: the amount went to the seller only.
C20_Witness ==
    /\ last.op = "process_refund"
    /\ last.res = Abort(E_INVALID_STATUS)
    /\ last.caller = "C"
    /\ HasOrder(last.mkt, last.order_id)
    /\ OrderAt(last.mkt, last.order_id).status = STATUS_DELIVERED
    /\ OrderAt(last.mkt, last.order_id).timeline_hours = 0
    /\ OrderAt(last.mkt, last.order_id).created_at = now
    /\ OrderAt(last.mkt, last.order_id).amount > 0
    /\ credited[last.mkt][last.order_id].seller
           = OrderAt(last.mkt, last.order_id).amount
    /\ credited[last.mkt][last.order_id].buyer = 0

(* -------------------------------- C21 ---------------------------------- *)

\* C21: the buyer's confirm_product_received on a Pending order succeeds
\* at any time, before, at and after the refund deadline; past the
\* deadline the order can still become Delivered as well as Refunded, until
\* one of the two calls is made.
C21_ConfirmAtAnyTime ==
    /\ [](\A mk \in MarketAddrs, id \in 1..MaxOrders :
             IsPending(mk, id) =>
                /\ confirm_product_received_result(OrderAt(mk, id).buyer, id, mk)
                       = Success
                /\ PendingPastDeadline(mk, id) =>
                       \A r \in Addr : process_refund_result(r, id, mk) = Success)
    /\ [][\A mk \in MarketAddrs, id \in 1..MaxOrders :
             (/\ ConfirmStep
              /\ last'.mkt = mk
              /\ last'.order_id = id
              /\ IsPending(mk, id)
              /\ last'.caller = OrderAt(mk, id).buyer)
             => /\ last'.res = Success
                /\ OrderAfter(mk, id).status = STATUS_DELIVERED]_vars

\* The buyer has confirmed the first order, whose deadline was instant 0,
\* after a second order was created at a later instant: the confirmation
\* came after the deadline and succeeded.
C21_Witness ==
    /\ last.op = "confirm_product_received"
    /\ last.res = Success
    /\ last.order_id = 1
    /\ Len(market[last.mkt].orders) = 2
    /\ market[last.mkt].orders[1].created_at = 0
    /\ market[last.mkt].orders[1].timeline_hours = 0
    /\ market[last.mkt].orders[1].status = STATUS_DELIVERED
    /\ market[last.mkt].orders[1].amount > 0
    /\ market[last.mkt].orders[2].created_at > 0

(* -------------------------------- C22 ---------------------------------- *)

\* C22: get_user_orders(user) returns exactly the orders of get_all_orders
\* whose buyer or seller is user, each once, also when buyer and seller are
\* both user, and in the order of their creation.
C22_UserOrdersFilter ==
    \A mk \in MarketAddrs, u \in Addr :
        market[mk].exists =>
           LET all == get_all_orders(mk)
               mine == get_user_orders(mk, u)
               Party(o) == o.buyer = u \/ o.seller = u
           IN  /\ view_result(mk) = Success
               /\ \A k \in 1..Len(mine) :
                      /\ Party(mine[k])
                      /\ \E j \in 1..Len(all) : all[j] = mine[k]
               /\ \A j \in 1..Len(all) :
                      Party(all[j]) =>
                         Cardinality({k \in 1..Len(mine) : mine[k] = all[j]}) = 1
               /\ \A k, l \in 1..Len(mine) :
                      k < l => mine[k].order_id < mine[l].order_id
               /\ mine = SelectSeq(all, Party)

\* The marketplace holds an order that B both buys and sells and an order
\* that A buys from B: B is returned both, each once, A only the second.
C22_Witness ==
    \E mk \in MarketAddrs :
        /\ Len(get_all_orders(mk)) = 2
        /\ get_all_orders(mk)[1].buyer = "B"
        /\ get_all_orders(mk)[1].seller = "B"
        /\ get_all_orders(mk)[2].buyer = "A"
        /\ Len(get_user_orders(mk, "B")) = 2
        /\ Len(get_user_orders(mk, "A")) = 1
        /\ get_user_orders(mk, "A")[1].order_id = 2
        /\ get_user_orders(mk, "C") = <<>>

(* -------------------------------- C23 ---------------------------------- *)

\* The fields of an order that are set at creation.
Creation(order) ==
    <<order.order_id, order.buyer, order.seller, order.product_name,
      order.amount, order.created_at, order.timeline_hours>>

\* C23: a successful confirm_product_received or process_refund changes
\* only status and escrow_released of the order it names; that order's
\* other fields, every other order and next_order_id stay as they were.
\* No step removes an order or alters its creation fields, so every
\* created order stays returned by get_order and get_all_orders.
C23_SettlementFrame ==
    [][\A mk \in MarketAddrs :
          LET m == market[mk]
              n == market'[mk]
          IN  /\ Len(n.orders) >= Len(m.orders)
              /\ \A j \in 1..Len(m.orders) :
                     /\ Creation(n.orders[j]) = Creation(m.orders[j])
                     /\ get_order_result(mk, m.orders[j].order_id) = Success
                     /\ get_all_orders(mk)'[j].order_id = m.orders[j].order_id
              /\ \A id \in 1..MaxOrders :
                     HasOrder(mk, id) => get_order_result(mk, id)' = Success
              /\ (/\ ConfirmStep \/ RefundStep
                  /\ last'.mkt = mk
                  /\ last'.res = Success)
                 => LET i == get_order_mut(m.orders, last'.order_id)
                    IN  /\ i # 0
                        /\ Len(n.orders) = Len(m.orders)
                        /\ n.next_order_id = m.next_order_id
                        /\ \A j \in 1..Len(m.orders) :
                               j # i => n.orders[j] = m.orders[j]
                        /\ n.orders[i] =
                               [m.orders[i] EXCEPT
                                   !.status = n.orders[i].status,
                                   !.escrow_released = TRUE]
                        /\ m.orders[i].status = STATUS_PENDING
                        /\ n.orders[i].status \in
                               {STATUS_DELIVERED, STATUS_REFUNDED}]_vars

\* The second of two orders has been refunded while the first, already
\* Delivered, kept its place: both are stored in their terminal state.
C23_Witness ==
    /\ last.op = "process_refund"
    /\ last.res = Success
    /\ last.order_id = 2
    /\ Len(market[last.mkt].orders) = 2
    /\ market[last.mkt].orders[1].status = STATUS_DELIVERED
    /\ market[last.mkt].orders[2].status = STATUS_REFUNDED
    /\ market[last.mkt].orders[2].amount > 0
    /\ market[last.mkt].next_order_id = 3
    /\ get_order_result(last.mkt, 1) = Success
    /\ get_order_result(last.mkt, 2) = Success

(* -------------------------------- C24 ---------------------------------- *)

\* Two addresses that each publish a marketplace.
TwoMarkets == {"A", "B"}

\* The calls of Next, addressed to either of two marketplaces: one buyer
\* creates orders of one coin whose deadline is their creation or an hour
\* later, buyer and seller confirm and a third party asks for refunds.
NextTwo ==
    \/ \E admin \in TwoMarkets : initialize(admin)
    \/ \E s \in Sellers, h \in {0, 1}, m \in TwoMarkets :
          create_order("A", s, <<119>>, 1, h, m)
    \/ \E b \in {"A", "B"}, id \in 1..MaxOrders, m \in TwoMarkets :
          confirm_product_received(b, id, m)
    \/ \E id \in 1..MaxOrders, m \in TwoMarkets :
          process_refund("C", id, m)
    \/ \E t \in TimePoints : Tick(t)

SpecTwo == Init /\ [][NextTwo]_vars

\* C24: marketplaces are kept per address and are independent. initialize
\* creates one only at the caller's own address; each has its own orders,
\* its own next_order_id counting from 1 and its own pool; a call
\* addressed to one marketplace leaves the one at every other address
\* unchanged.
C24_IndependentLedgers ==
    /\ [](\A a \in Addr :
             /\ market[a].exists =>
                   /\ market[a].next_order_id = Len(market[a].orders) + 1
                   /\ \A j \in 1..Len(market[a].orders) :
                          market[a].orders[j].order_id = j
                   /\ market[a].escrow_pool = PendingSum(market[a].orders)
             /\ ~market[a].exists => market[a] = NoMarketplace)
    /\ [][/\ \A a \in Addr \ {last'.mkt} :
                 market'[a] = market[a] /\ credited'[a] = credited[a]
          /\ InitializeStep =>
                 /\ last'.mkt = last'.caller
                 /\ ~market[last'.caller].exists =>
                        market'[last'.caller] =
                            [exists |-> TRUE, orders |-> <<>>,
                             next_order_id |-> 1, escrow_pool |-> 0]]_vars

\* Two marketplaces each hold their own order number 1; the one at B has
\* refunded it and has an empty pool, the one at A still holds coins, and
\* the last call was to the one at B.
C24_Witness ==
    /\ market["A"].exists /\ market["B"].exists
    /\ Len(market["A"].orders) = 1 /\ Len(market["B"].orders) = 1
    /\ market["A"].orders[1].order_id = 1
    /\ market["B"].orders[1].order_id = 1
    /\ market["A"].orders[1].status = STATUS_PENDING
    /\ market["B"].orders[1].status = STATUS_REFUNDED
    /\ market["A"].escrow_pool > 0
    /\ market["B"].escrow_pool = 0
    /\ market["B"].orders[1].amount > 0
    /\ last.op = "process_refund" /\ last.mkt = "B"

(* -------------------------------- C25 ---------------------------------- *)

\* The events an order in its present state must have had emitted.
Lifecycle(order) ==
    IF order.status = STATUS_PENDING THEN <<OrderCreated(order)>>
    ELSE IF order.status = STATUS_DELIVERED
         THEN <<OrderCreated(order), ProductDelivered(order.order_id)>>
    ELSE <<OrderCreated(order),
           [type |-> "RefundProcessed", order_id |-> order.order_id,
            buyer |-> order.buyer, amount |-> order.amount]>>

\* C25: the events mirror the life of the orders. Each successful
\* create_order emits one OrderCreated with the new order's id, buyer,
\* seller and amount; an order gets at most one settlement event,
\* ProductDelivered exactly when it becomes Delivered and RefundProcessed,
\* with its buyer and amount, exactly when it becomes Refunded, never
\* both; a failed call, initialize and the passing of time emit nothing.
C25_EventsMirrorLifecycle ==
    /\ [](\A mk \in Addr, id \in 1..MaxOrders :
             IF HasOrder(mk, id)
             THEN events[mk][id] = Lifecycle(OrderAt(mk, id))
             ELSE events[mk][id] = <<>>)
    /\ [][/\ last'.res # Success => events' = events
          /\ (last' = last \/ InitializeStep) => events' = events
          /\ (CreateStep /\ last'.res = Success) =>
                events' = [events EXCEPT ![last'.mkt][last'.order_id] =
                    <<[type |-> "OrderCreated", order_id |-> last'.order_id,
                       buyer |-> last'.caller,
                       seller |-> market'[last'.mkt].orders[
                                      Len(market'[last'.mkt].orders)].seller,
                       amount |-> last'.amount]>>]
          /\ \A mk \in Addr, id \in 1..MaxOrders :
                Len(events'[mk][id]) <= Len(events[mk][id]) + 1]_vars

\* One order has been delivered and the other refunded: each has its
\* OrderCreated followed by its own settlement event, and a call has since
\* failed without adding any.
C25_Witness ==
    \E mk \in MarketAddrs :
        /\ Len(market[mk].orders) = 2
        /\ market[mk].orders[1].status = STATUS_DELIVERED
        /\ market[mk].orders[2].status = STATUS_REFUNDED
        /\ market[mk].orders[2].amount > 0
        /\ Len(events[mk][1]) = 2 /\ Len(events[mk][2]) = 2
        /\ events[mk][1][2].type = "ProductDelivered"
        /\ events[mk][2][2].type = "RefundProcessed"
        /\ events[mk][2][2].amount = market[mk].orders[2].amount
        /\ last.res = Abort(E_INVALID_STATUS)

(* ----------------------------- EscrowDApp ------------------------------ *)

\* The accounts the wallet can present.
Accounts == {"x", "y"}

\* handlers: the calls of handleCreateOrder, handleReleaseOrder,
\* handleProcessRefund and initializeMarketplace that have not returned,
\* each at the await it is suspended in.
Suspended(kind, pc) == [kind |-> kind, pc |-> pc]

RemoveAt(seq, i) ==
    [k \in 1..(Len(seq) - 1) |-> IF k < i THEN seq[k] ELSE seq[k + 1]]

\* A button with disabled={loading} is clicked, in the view rendered for a
\* connected wallet: the handler passes its connected/account test, calls
\* setLoading(true) and suspends in await signAndSubmitTransaction.
click(kind) ==
    /\ ui.connected /\ ui.account # "none"
    /\ ~ui.loading
    /\ Len(ui.handlers) < MaxHandlers
    /\ ui' = [ui EXCEPT !.loading = TRUE,
                        !.handlers = Append(@, Suspended(kind, "signing"))]
    /\ UNCHANGED <<ledger, session>>

handleCreateOrder == click("create_order")

handleReleaseOrder == click("confirm_product_received")

handleProcessRefund == click("process_refund")

initializeMarketplace == click("initialize")

\* signAndSubmitTransaction resolves: the handler goes on to
\* await aptos.waitForTransaction.
signed(i) ==
    /\ i \in 1..Len(ui.handlers)
    /\ ui.handlers[i].pc = "signing"
    /\ ui' = [ui EXCEPT !.handlers[i].pc = "confirming"]
    /\ UNCHANGED <<ledger, session>>

\* signAndSubmitTransaction or waitForTransaction throws: catch, then
\* finally { setLoading(false) }.
thrown(i) ==
    /\ i \in 1..Len(ui.handlers)
    /\ ui.handlers[i].pc \in {"signing", "confirming"}
    /\ ui' = [ui EXCEPT !.loading = FALSE,
                        !.handlers = RemoveAt(@, i)]
    /\ UNCHANGED <<ledger, session>>

\* waitForTransaction resolves. initializeMarketplace then runs its
\* finally; the other handlers call fetchEscrows, which calls
\* setLoading(true) and suspends in await aptos.view.
confirmed(i) ==
    /\ i \in 1..Len(ui.handlers)
    /\ ui.handlers[i].pc = "confirming"
    /\ ui' = IF ui.handlers[i].kind = "initialize"
             THEN [ui EXCEPT !.loading = FALSE, !.handlers = RemoveAt(@, i)]
             ELSE [ui EXCEPT !.loading = TRUE,
                             !.handlers[i].pc = "fetching"]
    /\ UNCHANGED <<ledger, session>>

\* The fetchEscrows a handler awaits returns: its finally and then the
\* handler's finally call setLoading(false).
fetched(i) ==
    /\ i \in 1..Len(ui.handlers)
    /\ ui.handlers[i].pc = "fetching"
    /\ ui' = [ui EXCEPT !.loading = FALSE, !.handlers = RemoveAt(@, i)]
    /\ UNCHANGED <<ledger, session>>

\* fetchEscrows called on its own, by the effect or by the Refresh Orders
\* button: setLoading(true), then await aptos.view.
fetchEscrows(u) == [u EXCEPT !.loading = TRUE, !.fetches = @ + 1]

\* useEffect(() => { if (connected && account) fetchEscrows() },
\*           [connected, account]), run for a wallet that connects.
wallet_connects(acc) ==
    /\ ~ui.connected
    /\ ui.fetches < MaxFetches
    /\ ui' = fetchEscrows([ui EXCEPT !.connected = TRUE, !.account = acc])
    /\ UNCHANGED <<ledger, session>>

\* The same effect, run because the wallet presents another account.
account_changes(acc) ==
    /\ ui.connected
    /\ acc # ui.account
    /\ ui.fetches < MaxFetches
    /\ ui' = fetchEscrows([ui EXCEPT !.account = acc])
    /\ UNCHANGED <<ledger, session>>

\* The wallet disconnects: the effect runs and calls nothing.
wallet_disconnects ==
    /\ ui.connected
    /\ ui' = [ui EXCEPT !.connected = FALSE, !.account = "none"]
    /\ UNCHANGED <<ledger, session>>

\* The Refresh Orders button, disabled={loading}.
refresh ==
    /\ ui.connected /\ ui.account # "none"
    /\ ~ui.loading
    /\ ui.fetches < MaxFetches
    /\ ui' = fetchEscrows(ui)
    /\ UNCHANGED <<ledger, session>>

\* aptos.view of a fetchEscrows called on its own resolves or throws:
\* finally { setLoading(false) }.
fetchEscrows_returns ==
    /\ ui.fetches > 0
    /\ ui' = [ui EXCEPT !.loading = FALSE, !.fetches = @ - 1]
    /\ UNCHANGED <<ledger, session>>

NextUI ==
    \/ handleCreateOrder
    \/ handleReleaseOrder
    \/ handleProcessRefund
    \/ initializeMarketplace
    \/ \E i \in 1..MaxHandlers : signed(i)
    \/ \E i \in 1..MaxHandlers : thrown(i)
    \/ \E i \in 1..MaxHandlers : confirmed(i)
    \/ \E i \in 1..MaxHandlers : fetched(i)
    \/ \E acc \in Accounts : wallet_connects(acc)
    \/ \E acc \in Accounts : account_changes(acc)
    \/ wallet_disconnects
    \/ refresh
    \/ fetchEscrows_returns

SpecUI == Init /\ [][NextUI]_vars

(* -------------------------------- C26 ---------------------------------- *)

\* The handlers whose transaction awaits signing or confirmation.
AwaitingTransaction ==
    {i \in 1..Len(ui.handlers) : ui.handlers[i].pc \in {"signing", "confirming"}}

\* C26: while a transaction submitted by one of the four handlers awaits
\* signing or confirmation, loading is true, so the buttons are disabled
\* and there is no second such transaction; also when a fetchEscrows
\* started by the effect has come and gone in the meantime.
C26_LoadingWhileTransactionPending ==
    /\ AwaitingTransaction # {} => ui.loading
    /\ Cardinality(AwaitingTransaction) <= 1

(* ----------------------- WalletTimeoutController ----------------------- *)

\* session.connected is the value of useWallet().connected in the last
\* render; effect_due says that this render's effect has not run yet;
\* timers holds the expiry instants of the pending setTimeout timers and
\* effect_timer the one the last effect started.

\* The wallet connects and the component renders with connected = true.
\* A render comes after the effects of the render before it.
session_connects ==
    /\ session.mounted /\ ~session.connected /\ ~session.effect_due
    /\ session.clock + SessionTimeout <= MaxClock
    /\ session' = [session EXCEPT !.connected = TRUE, !.effect_due = TRUE]
    /\ UNCHANGED <<ledger, ui>>

\* The user disconnects the wallet and the component renders with
\* connected = false.
session_disconnects ==
    /\ session.mounted /\ session.connected /\ ~session.effect_due
    /\ session' = [session EXCEPT !.connected = FALSE, !.effect_due = TRUE]
    /\ UNCHANGED <<ledger, ui>>

\* The component unmounts; its cleanup is due.
session_unmounts ==
    /\ session.mounted /\ ~session.effect_due
    /\ session' = [session EXCEPT !.mounted = FALSE, !.effect_due = TRUE]
    /\ UNCHANGED <<ledger, ui>>

run_effect_no_cleanup ==
    /\ session.effect_due
    /\ LET timer == session.clock + SessionTimeout
       IN  session' =
             IF session.mounted /\ session.connected
             THEN [session EXCEPT !.effect_due = FALSE,
                                  !.timers = @ \cup {timer},
                                  !.effect_timer = timer]
             ELSE [session EXCEPT !.effect_due = FALSE,
                                  !.effect_timer = NoTimer]
    /\ UNCHANGED <<ledger, ui>>

\* The cleanup of the effect that ran last, clearTimeout(timer), and then,
\* unless unmounted, the effect of the present render: return if not
\* connected, else setTimeout(..., 30 * 60 * 1000).
run_effect ==
    /\ session.effect_due
    /\ LET cleared == session.timers \ {session.effect_timer}
           timer == session.clock + SessionTimeout
       IN  session' =
             IF session.mounted /\ session.connected
             THEN [session EXCEPT !.effect_due = FALSE,
                                  !.timers = cleared \cup {timer},
                                  !.effect_timer = timer]
             ELSE [session EXCEPT !.effect_due = FALSE,
                                  !.timers = cleared,
                                  !.effect_timer = NoTimer]
    /\ UNCHANGED <<ledger, ui>>

\* A timer that is due fires: disconnect(), then the alert. With the wallet
\* connected the component renders with connected = false.
timer_fires(timer) ==
    /\ timer \in session.timers
    /\ session.clock >= timer
    /\ session' =
         IF session.connected
         THEN [session EXCEPT !.timers = @ \ {timer},
                              !.connected = FALSE,
                              !.effect_due = session.mounted]
         ELSE [session EXCEPT !.timers = @ \ {timer},
                              !.fired_disconnected = TRUE]
    /\ UNCHANGED <<ledger, ui>>

\* The browser's clock moves on; an effect that is due runs within the
\* instant of its render.
session_tick ==
    /\ session.clock < MaxClock
    /\ ~session.effect_due
    /\ session' = [session EXCEPT !.clock = @ + 1]
    /\ UNCHANGED <<ledger, ui>>

NextSession ==
    \/ session_connects
    \/ session_disconnects
    \/ session_unmounts
    \/ run_effect
    \/ \E timer \in 0..MaxClock : timer_fires(timer)
    \/ session_tick

\* Effects that are due run, time passes and a timer that is due fires.
FairSession ==
    /\ WF_vars(run_effect)
    /\ WF_vars(session_tick)
    /\ WF_vars(\E timer \in 0..MaxClock : timer_fires(timer))

SpecSession == Init /\ [][NextSession]_vars /\ FairSession

(* -------------------------------- C27 ---------------------------------- *)

SessionTimersSafe ==
    /\ Cardinality(session.timers) <= 1
    /\ session.timers # {} => session.effect_timer \in session.timers
    /\ (~session.effect_due /\ (~session.connected \/ ~session.mounted))
          => session.timers = {}

\* A connected session ends.
SessionEnds ==
    (session.mounted /\ session.connected)
        ~> (~session.mounted \/ ~session.connected)

====
